---- MODULE Spec2Model ----
(***************************************************************************)
(* Parts Transfer Scanner (src/app.py): a Streamlit script that keeps a    *)
(* ledger of scanned / typed part codes in st.session_state and posts it   *)
(* to a spreadsheet web hook.                                              *)
(*                                                                         *)
(* Strings that the code trims and uppercases (raw inputs, barcodes) are   *)
(* sequences of one-character strings, so that strip() and upper() are     *)
(* computed.  Locations are only tested for truthiness and are plain       *)
(* strings.  Time is counted in tenths of a second.  The 'timestamp' field *)
(* of a ledger entry (line 68) is written and never read; it is left out.  *)
(***************************************************************************)
EXTENDS Integers, Sequences, FiniteSets, TLC

\* ---------------------------------------------------------------- bounds
\* Largest clock reading explored.
MaxTime == 36
\* Largest quantity a ledger entry is allowed to reach in the exploration.
MaxQty == 2
\* Clock reading when the session starts (time.time() is far from 0).
StartTime == 20

\* ------------------------------------------------------------- constants
\* SCAN_COOLDOWN = 1.5 seconds, in tenths of a second.
SCAN_COOLDOWN == 15
\* len(barcode.strip()) < 2
MinCodeLen == 2

\* Amounts of time that may pass between two events (tenths of a second).
TickSteps == {5, 16}

\* Raw values a scanner or a keyboard delivers.
RawInputs ==
  { <<>>, <<" ", "a", " ">>,
    <<"a", "b">>, <<" ", "A", "b", " ">>, <<"z", "9">> }

\* Values typed into the two location fields.
LocationInputs == {"", "Main Warehouse"}

\* What the HTTP POST of save_transfer_data can end with: a 2xx response,
\* a response carrying an error status, or an exception (the time-out
\* after 10 s).
SinkOutcomes == {"ok", "http_error", "timeout"}

\* ------------------------------------------------------ str.strip / upper
Whitespace == {" "}

RECURSIVE lstrip(_)
lstrip(s) ==
  IF s = <<>> THEN s
  ELSE IF Head(s) \in Whitespace THEN lstrip(Tail(s)) ELSE s

RECURSIVE rstrip(_)
rstrip(s) ==
  IF s = <<>> THEN s
  ELSE IF s[Len(s)] \in Whitespace THEN rstrip(SubSeq(s, 1, Len(s) - 1)) ELSE s

strip(s) == rstrip(lstrip(s))

upper_char(c) ==
  CASE c = "a" -> "A"
    [] c = "b" -> "B"
    [] c = "c" -> "C"
    [] c = "z" -> "Z"
    [] OTHER -> c

upper(s) == [i \in 1..Len(s) |-> upper_char(s[i])]

\* ------------------------------------------------------------ the ledger
\* sum(p['quantity'] for p in parts)
RECURSIVE total_items(_)
total_items(ps) ==
  IF ps = <<>> THEN 0 ELSE Head(ps).quantity + total_items(Tail(ps))

\* Index of the first entry with this barcode, 0 when there is none
\* (the for loop of lines 55-62 returns at the first match).
find_part(ps, code) ==
  IF \E i \in 1..Len(ps) : ps[i].barcode = code
  THEN CHOOSE i \in 1..Len(ps) :
         /\ ps[i].barcode = code
         /\ \A j \in 1..(i - 1) : ps[j].barcode # code
  ELSE 0

\* (Variant: the count of a new entry starts at 0.)
new_part_zero(code) == [barcode |-> code, quantity |-> 0]

\* The entry appended for a code seen for the first time (lines 65-69).
new_part(code) == [barcode |-> code, quantity |-> 1]

\* (Variant: a repeated code is found but not counted.)
upsert_no_increment(ps, code) ==
  IF find_part(ps, code) # 0 THEN ps ELSE Append(ps, new_part(code))

\* (Variant: the search for an existing entry is skipped.)
upsert_always_append(ps, code) == Append(ps, new_part(code))

\* (Variant: a new entry is put at the head of the list.)
upsert_new_first(ps, code) ==
  LET i == find_part(ps, code) IN
  IF i # 0
  THEN [ps EXCEPT ![i].quantity = @ + 1]
  ELSE <<new_part(code)>> \o ps

\* Lines 54-69: increment the matching entry or append a new one.
upsert(ps, code) ==
  LET i == find_part(ps, code) IN
  IF i # 0
  THEN [ps EXCEPT ![i].quantity = @ + 1]
  ELSE Append(ps, new_part(code))

\* (Variant: the length is taken before trimming.)
is_invalid_untrimmed(barcode) == barcode = <<>> \/ Len(barcode) < MinCodeLen

\* Lines 35: the validity test of add_part.
is_invalid(barcode) == barcode = <<>> \/ Len(strip(barcode)) < MinCodeLen

\* (Variant: the case of the letters is kept.)
normalize_keep_case(barcode) == strip(barcode)

\* (Variant: one whitespace character is removed at each end.)
normalize_strip_one(barcode) ==
  LET l == IF barcode # <<>> /\ Head(barcode) \in Whitespace
           THEN Tail(barcode) ELSE barcode
      r == IF l # <<>> /\ l[Len(l)] \in Whitespace
           THEN SubSeq(l, 1, Len(l) - 1) ELSE l
  IN upper(r)

\* Line 42.
normalize(barcode) == upper(strip(barcode))

\* (Variant: the window is closed at its end, <= for <.)
too_soon_inclusive(S, code, t) ==
  /\ code = S.last_scanned_code
  /\ t - S.last_scan_time <= SCAN_COOLDOWN

\* (Variant: every code of the ledger is remembered, not the last scan.)
too_soon_any_listed(S, code, t) ==
  /\ find_part(S.parts, code) # 0
  /\ t - S.last_scan_time < SCAN_COOLDOWN

\* Lines 47-48: the cooldown test.
too_soon(S, code, t) ==
  /\ code = S.last_scanned_code
  /\ t - S.last_scan_time < SCAN_COOLDOWN

\* (Variant: the cooldown is applied whatever the source.)
suppressed_any_source(S, code, from_scanner, t) == too_soon(S, code, t)

\* Lines 46-49: a scan is ignored when it repeats the last one too soon.
suppressed(S, code, from_scanner, t) == from_scanner /\ too_soon(S, code, t)

\* add_part, lines 33-75.  S is the session state, t the value of
\* time.time().  Returns the new session state and the return value.
add_part(S, barcode, from_scanner, t) ==
  IF is_invalid(barcode) THEN [S |-> S, ok |-> FALSE]
  ELSE
    LET code == normalize(barcode) IN
    IF suppressed(S, code, from_scanner, t) THEN [S |-> S, ok |-> FALSE]
    ELSE
      LET S1 == IF from_scanner
                THEN [S EXCEPT !.last_scanned_code = code,
                               !.last_scan_time = t]
                ELSE S
      IN [S |-> [S1 EXCEPT !.parts = upsert(S1.parts, code)], ok |-> TRUE]

\* (Variant: list.pop without the range test; a negative index counts
\* from the end of the list.)
remove_part_unguarded(S, index) ==
  LET n == Len(S.parts)
      k == IF index < 0 THEN index + n ELSE index
  IN IF 0 <= k /\ k < n
     THEN [S EXCEPT !.parts = SubSeq(S.parts, 1, k) \o SubSeq(S.parts, k + 2, n)]
     ELSE S

\* remove_part, lines 77-81 (Python index, 0-based).
remove_part(S, index) ==
  IF 0 <= index /\ index < Len(S.parts)
  THEN [S EXCEPT !.parts = SubSeq(S.parts, 1, index)
                           \o SubSeq(S.parts, index + 2, Len(S.parts))]
  ELSE S

\* (Variant: the new quantity is not tested.)
update_quantity_any_qty(S, index, new_qty) ==
  IF 0 <= index /\ index < Len(S.parts)
  THEN [S EXCEPT !.parts[index + 1].quantity = new_qty]
  ELSE S

\* update_quantity, lines 83-86 (Python index, 0-based).
update_quantity(S, index, new_qty) ==
  IF 0 <= index /\ index < Len(S.parts) /\ new_qty > 0
  THEN [S EXCEPT !.parts[index + 1].quantity = new_qty]
  ELSE S

\* (Variant: partTypes carries the sum of the quantities.)
transfer_data_types_as_total(from_loc, to_loc, parts_data) ==
  [fromLocation |-> from_loc,
   toLocation   |-> to_loc,
   parts        |-> parts_data,
   totalParts   |-> total_items(parts_data),
   partTypes    |-> total_items(parts_data)]

\* The request body built by save_transfer_data, lines 91-98.
transfer_data(from_loc, to_loc, parts_data) ==
  [fromLocation |-> from_loc,
   toLocation   |-> to_loc,
   parts        |-> parts_data,
   totalParts   |-> total_items(parts_data),
   partTypes    |-> Len(parts_data)]

\* save_transfer_data, lines 88-110: True unless requests.post raised.
\* The response is never inspected (line 100 assigns it, line 107 returns).
save_transfer_data(outcome) == outcome \in {"ok", "http_error"}

\* (Variant: the ledger is not cleared.)
reset_transfer_keeps_parts(S) ==
  [S EXCEPT !.transfer_complete = FALSE,
            !.scanning_mode = "None",
            !.last_scanned_code = <<>>,
            !.last_scan_time = 0]

\* (Variant: the cooldown state is not cleared.)
reset_transfer_keeps_cooldown(S) ==
  [S EXCEPT !.parts = <<>>,
            !.transfer_complete = FALSE,
            !.scanning_mode = "None"]

\* (Variant: the reset marks the transfer as complete.)
reset_transfer_marks_complete(S) ==
  [S EXCEPT !.parts = <<>>,
            !.transfer_complete = TRUE,
            !.scanning_mode = "None",
            !.last_scanned_code = <<>>,
            !.last_scan_time = 0]

\* reset_transfer, lines 112-118.
reset_transfer(S) ==
  [S EXCEPT !.parts = <<>>,
            !.transfer_complete = FALSE,
            !.scanning_mode = "None",
            !.last_scanned_code = <<>>,
            !.last_scan_time = 0]

\* (Variant: the ledger is not looked at.)
can_complete_any_ledger(S) ==
  /\ S.from_location # ""
  /\ S.to_location # ""
  /\ ~S.transfer_complete

\* can_complete, lines 493-498.
can_complete(S) ==
  /\ S.from_location # ""
  /\ S.to_location # ""
  /\ S.parts # <<>>
  /\ ~S.transfer_complete


\* ------------------------------------------------------- the script run
VARIABLES
  parts,              \* st.session_state.parts
  transfer_complete,  \* st.session_state.transfer_complete
  scanning_mode,      \* st.session_state.scanning_mode
  last_scanned_code,  \* st.session_state.last_scanned_code
  last_scan_time,     \* st.session_state.last_scan_time
  scanned_result,     \* value of the text input with key "scanned_result"
  from_location,      \* value of the "From Location" text input
  to_location,        \* value of the "To Location" text input
  now,                \* time.time()
  calls,              \* the function calls made by the step just taken
  hist,               \* the accepted add_part calls since the ledger was empty
  last_accept         \* the last scan add_part accepted, and whether
                      \* reset_transfer has been called since

vars == <<parts, transfer_complete, scanning_mode, last_scanned_code,
          last_scan_time, scanned_result, from_location, to_location,
          now, calls, hist, last_accept>>

\* The session as one record, the form the operators above work on.
Session ==
  [parts |-> parts, transfer_complete |-> transfer_complete,
   scanning_mode |-> scanning_mode, last_scanned_code |-> last_scanned_code,
   last_scan_time |-> last_scan_time, scanned_result |-> scanned_result,
   from_location |-> from_location, to_location |-> to_location]

\* A widget event: the widget, and the index / value / outcome it carries.
Event(w, a) == [widget |-> w, arg |-> a]

NoEvent == Event("none", <<>>)

\* The state of a script run: the session, whether st.rerun() has stopped
\* the run, and the calls made so far.
Begin(S) == [S |-> S, rerun |-> FALSE, calls |-> <<>>]

Call(fn, arg, ok) == [fn |-> fn, arg |-> arg, ok |-> ok]

\* Lines 183-190: the two mode buttons.
mode_selector(R, e) ==
  IF R.rerun THEN R
  ELSE IF e.widget = "btn_qr"
  THEN [R EXCEPT !.S.scanning_mode = "qr_scanner", !.rerun = TRUE]
  ELSE IF e.widget = "btn_manual"
  THEN [R EXCEPT !.S.scanning_mode = "manual", !.rerun = TRUE]
  ELSE R

\* Lines 365-370: process the value of the scanned_result input.  The call
\* is recorded with whether the value was delivered by this run's event.
process_scanned_code(R, e, t) ==
  LET scanned_code == R.S.scanned_result IN
  IF scanned_code # <<>> /\ strip(scanned_code) # <<>>
  THEN LET r == add_part(R.S, scanned_code, TRUE, t)
           c == Call("add_part",
                     [raw |-> scanned_code, from_scanner |-> TRUE,
                      fresh |-> e.widget = "scanned_result"], r.ok)
       IN IF r.ok
          THEN [S |-> [r.S EXCEPT !.scanned_result = <<>>],
                rerun |-> TRUE, calls |-> Append(R.calls, c)]
          ELSE [R EXCEPT !.S = r.S, !.calls = Append(R.calls, c)]
  ELSE R

\* Lines 195-396: the scanner section.
scanner_section(R, e, t) ==
  LET R1 == process_scanned_code(R, e, t) IN
  IF R1.rerun THEN R1
  ELSE IF e.widget = "close_scanner"
  THEN [R1 EXCEPT !.S.scanning_mode = "None", !.rerun = TRUE]
  ELSE R1

\* Lines 399-441: the manual entry section.
manual_section(R, e, t) ==
  IF e.widget = "manual_form" /\ e.arg # <<>>
  THEN LET r == add_part(R.S, e.arg, FALSE, t)
           c == Call("add_part",
                     [raw |-> e.arg, from_scanner |-> FALSE, fresh |-> TRUE],
                     r.ok)
       IN [S |-> r.S, rerun |-> r.ok, calls |-> Append(R.calls, c)]
  ELSE IF e.widget = "close_manual"
  THEN [R EXCEPT !.S.scanning_mode = "None", !.rerun = TRUE]
  ELSE R

\* Lines 195, 399: the section of the chosen input method.  The
\* scanned_result input exists only in the scanner section; a run that does
\* not create it drops its value.
input_section(R, e, t) ==
  IF R.rerun THEN R
  ELSE IF R.S.scanning_mode = "qr_scanner" THEN scanner_section(R, e, t)
  ELSE LET R1 == [R EXCEPT !.S.scanned_result = <<>>] IN
       IF R.S.scanning_mode = "manual" THEN manual_section(R1, e, t) ELSE R1

\* Lines 467-470: the decrease button of row i.
dec_button(R, i) ==
  LET q == R.S.parts[i + 1].quantity IN
  IF q > 1
  THEN [S |-> update_quantity(R.S, i, q - 1), rerun |-> TRUE,
        calls |-> Append(R.calls,
                   Call("update_quantity", [index |-> i, new_qty |-> q - 1], TRUE))]
  ELSE R

\* Lines 476-478: the increase button of row i.
inc_button(R, i) ==
  LET q == R.S.parts[i + 1].quantity IN
  [S |-> update_quantity(R.S, i, q + 1), rerun |-> TRUE,
   calls |-> Append(R.calls,
              Call("update_quantity", [index |-> i, new_qty |-> q + 1], TRUE))]

\* Lines 481-483: the remove button of row i.
del_button(R, i) ==
  [S |-> remove_part(R.S, i), rerun |-> TRUE,
   calls |-> Append(R.calls, Call("remove_part", [index |-> i], TRUE))]

\* Lines 450-488: the parts list; a button exists for each row rendered.
parts_list(R, e) ==
  IF R.rerun THEN R
  ELSE IF e.widget \in {"dec", "inc", "del"} /\ e.arg < Len(R.S.parts)
  THEN CASE e.widget = "dec" -> dec_button(R, e.arg)
         [] e.widget = "inc" -> inc_button(R, e.arg)
         [] e.widget = "del" -> del_button(R, e.arg)
  ELSE R

\* Lines 500-510: the Complete Transfer button.
complete_section(R, e) ==
  IF R.rerun THEN R
  ELSE IF can_complete(R.S) /\ e.widget = "complete"
  THEN LET parts_data == R.S.parts
           ok == save_transfer_data(e.arg)
           c == Call("save_transfer_data",
                     [payload |-> transfer_data(R.S.from_location,
                                                R.S.to_location, parts_data),
                      outcome |-> e.arg], ok)
       IN IF ok
          THEN [S |-> reset_transfer(R.S), rerun |-> TRUE,
                calls |-> R.calls \o <<c, Call("reset_transfer", <<>>, TRUE)>>]
          ELSE [R EXCEPT !.calls = Append(R.calls, c)]
  ELSE R

\* Lines 525-529: the Clear All Parts button.
clear_section(R, e) ==
  IF R.rerun THEN R
  ELSE IF R.S.parts # <<>> /\ e.widget = "clear_all"
  THEN [S |-> reset_transfer(R.S), rerun |-> TRUE,
        calls |-> Append(R.calls, Call("reset_transfer", <<>>, TRUE))]
  ELSE R

\* One execution of the script, top to bottom, with the widget event e.
\* (Each stage is bound as a value, so that it is evaluated once.)
Script(R, e, t) ==
  CHOOSE out \in
    { clear_section(R4, e) : R4 \in
      { complete_section(R3, e) : R3 \in
        { parts_list(R2, e) : R2 \in
          { input_section(R1, e, t) : R1 \in
            { mode_selector(R0, e) : R0 \in {R} } } } } } : TRUE

\* st.rerun(): the script is executed again, with no widget event.
Rerun(R, t) ==
  IF R.rerun THEN Script([R EXCEPT !.rerun = FALSE], NoEvent, t) ELSE R

\* A widget event: the script runs, and runs again for as long as a run
\* ends in st.rerun() (twice at most: the second run finds the scanned
\* value cleared).  The runs of one event read the same clock value t.
Run(S, e, t) ==
  CHOOSE out \in
    { Rerun(R2, t) : R2 \in
      { Rerun(R1, t) : R1 \in { Script(Begin(S), e, t) } } } : TRUE

\* ---------------------------------------------------------------- history
\* The add_part calls accepted since the ledger was last empty, kept for as
\* long as no remove_part / update_quantity / reset_transfer has been called.
NoHist == [adds_only |-> TRUE, accepted |-> 0, codes |-> {}]

Accepted(cs) ==
  {i \in 1..Len(cs) : cs[i].fn = "add_part" /\ cs[i].ok}

Edits(cs) ==
  {i \in 1..Len(cs) :
     cs[i].fn \in {"remove_part", "update_quantity", "reset_transfer"}}

Log(h, R) ==
  IF R.S.parts = <<>> THEN NoHist
  ELSE IF Edits(R.calls) # {} \/ ~h.adds_only
  THEN [adds_only |-> FALSE, accepted |-> 0, codes |-> {}]
  ELSE [adds_only |-> TRUE,
        accepted |-> h.accepted + Cardinality(Accepted(R.calls)),
        codes |-> h.codes \cup
                  {upper(strip(R.calls[i].arg.raw)) : i \in Accepted(R.calls)}]

NoAccept == [code |-> <<>>, time |-> 0, reset |-> FALSE]

AcceptedScans(cs) ==
  {i \in Accepted(cs) : cs[i].arg.from_scanner}

LogScan(g, R, t) ==
  IF AcceptedScans(R.calls) # {}
  THEN [code |-> upper(strip(R.calls[CHOOSE i \in AcceptedScans(R.calls) : TRUE].arg.raw)),
        time |-> t, reset |-> FALSE]
  ELSE IF \E i \in 1..Len(R.calls) : R.calls[i].fn = "reset_transfer"
  THEN [g EXCEPT !.reset = TRUE]
  ELSE g

\* ------------------------------------------------------------------- Init
\* Lines 19-28, and the empty widgets of a new session.
Init ==
  /\ parts = <<>>
  /\ transfer_complete = FALSE
  /\ scanning_mode = "None"
  /\ last_scanned_code = <<>>
  /\ last_scan_time = 0
  /\ scanned_result = <<>>
  /\ from_location = ""
  /\ to_location = ""
  /\ now = StartTime
  /\ calls = <<>>
  /\ hist = NoHist
  /\ last_accept = NoAccept

\* ---------------------------------------------------------------- actions
\* The widget event e arrives in session S0: the script runs to the end.
Do(S0, e) ==
  \E R \in {Run(S0, e, now)} :
  /\ \A i \in 1..Len(R.S.parts) : R.S.parts[i].quantity <= MaxQty
  /\ parts' = R.S.parts
  /\ transfer_complete' = R.S.transfer_complete
  /\ scanning_mode' = R.S.scanning_mode
  /\ last_scanned_code' = R.S.last_scanned_code
  /\ last_scan_time' = R.S.last_scan_time
  /\ scanned_result' = R.S.scanned_result
  /\ from_location' = R.S.from_location
  /\ to_location' = R.S.to_location
  /\ calls' = R.calls
  /\ hist' = Log(hist, R)
  /\ last_accept' = LogScan(last_accept, R, now)
  /\ now' = now

\* Lines 169, 171: the user edits a location field.
SetFromLocation ==
  \E v \in LocationInputs \ {from_location} :
    Do([Session EXCEPT !.from_location = v], Event("from_location", <<>>))

SetToLocation ==
  \E v \in LocationInputs \ {to_location} :
    Do([Session EXCEPT !.to_location = v], Event("to_location", <<>>))

\* Lines 183, 188.
PressQRScanner == Do(Session, Event("btn_qr", <<>>))

PressManualEntry == Do(Session, Event("btn_manual", <<>>))

\* Lines 234-242: the scanner writes the decoded text into the
\* scanned_result input and fires its input event.
ScanDelivered ==
  /\ scanning_mode = "qr_scanner"
  /\ \E raw \in RawInputs :
       Do([Session EXCEPT !.scanned_result = raw], Event("scanned_result", <<>>))

\* Lines 375, 385.
PressRestartScanner ==
  /\ scanning_mode = "qr_scanner"
  /\ Do(Session, Event("restart_scanner", <<>>))

PressCloseScanner ==
  /\ scanning_mode = "qr_scanner"
  /\ Do(Session, Event("close_scanner", <<>>))

\* Lines 421-434: the manual form is submitted with a typed value.
SubmitManualForm ==
  /\ scanning_mode = "manual"
  /\ \E raw \in RawInputs : Do(Session, Event("manual_form", raw))

\* Line 437.
PressCloseManual ==
  /\ scanning_mode = "manual"
  /\ Do(Session, Event("close_manual", <<>>))

\* Lines 467, 476, 481: the buttons of a rendered row (0-based index).
PressDecrease ==
  \E i \in 0..(Len(parts) - 1) : Do(Session, Event("dec", i))

PressIncrease ==
  \E i \in 0..(Len(parts) - 1) : Do(Session, Event("inc", i))

PressRemove ==
  \E i \in 0..(Len(parts) - 1) : Do(Session, Event("del", i))

\* Line 501: the button exists when can_complete held at the last render.
PressCompleteTransfer ==
  /\ can_complete(Session)
  /\ \E outcome \in SinkOutcomes : Do(Session, Event("complete", outcome))

\* Line 527: the button exists when the ledger is not empty.
PressClearAll ==
  /\ parts # <<>>
  /\ Do(Session, Event("clear_all", <<>>))

\* Time passes between two events.
Tick ==
  /\ \E d \in TickSteps : now + d <= MaxTime /\ now' = now + d
  /\ calls' = <<>>
  /\ UNCHANGED <<parts, transfer_complete, scanning_mode, last_scanned_code,
                 last_scan_time, scanned_result, from_location, to_location,
                 hist, last_accept>>

Next ==
  \/ SetFromLocation
  \/ SetToLocation
  \/ PressQRScanner
  \/ PressManualEntry
  \/ ScanDelivered
  \/ PressRestartScanner
  \/ PressCloseScanner
  \/ SubmitManualForm
  \/ PressCloseManual
  \/ PressDecrease
  \/ PressIncrease
  \/ PressRemove
  \/ PressCompleteTransfer
  \/ PressClearAll
  \/ Tick

Spec == Init /\ [][Next]_vars

TypeOK ==
  /\ scanning_mode \in {"None", "qr_scanner", "manual"}
  /\ transfer_complete \in BOOLEAN
  /\ from_location \in LocationInputs
  /\ to_location \in LocationInputs
  /\ now \in StartTime..MaxTime
  /\ last_scan_time \in 0..MaxTime

\* ------------------------------------------------------------ properties
\* The calls of a step, by kind.
AddCalls(cs) == {i \in 1..Len(cs) : cs[i].fn = "add_part"}

SaveCalls(cs) == {i \in 1..Len(cs) : cs[i].fn = "save_transfer_data"}

ResetCalls(cs) == {i \in 1..Len(cs) : cs[i].fn = "reset_transfer"}

\* The trimmed, uppercased code of an add_part call, and whether its raw
\* value is long enough.
CodeOf(c) == upper(strip(c.arg.raw))

ValidRaw(c) == Len(strip(c.arg.raw)) >= 2

\* The quantity the ledger holds for a code, 0 when it holds none.
RECURSIVE QtyOf(_, _)
QtyOf(ps, code) ==
  IF ps = <<>> THEN 0
  ELSE (IF Head(ps).barcode = code THEN Head(ps).quantity ELSE 0)
       + QtyOf(Tail(ps), code)

\* C1: as long as only add_part calls have been accepted since the ledger
\* was empty, the sum of the quantities is the number of accepted calls and
\* the number of entries is the number of distinct normalized codes.
C1_TotalsMatchAcceptedCalls ==
  hist.adds_only =>
    /\ total_items(parts) = hist.accepted
    /\ Len(parts) = Cardinality(hist.codes)

C1_Witness ==
  /\ hist.adds_only
  /\ hist.accepted = 3
  /\ Cardinality(hist.codes) = 2

\* C2: no two entries of the ledger have the same barcode.
C2_UniqueBarcodes ==
  \A i, j \in 1..Len(parts) : i # j => parts[i].barcode # parts[j].barcode

C2_Witness ==
  /\ Len(parts) = 2
  /\ \E i \in AddCalls(calls) :
       calls[i].ok /\ QtyOf(parts, CodeOf(calls[i])) = 2

\* C3, as claimed: a scanner add_part call whose code is the code of the
\* last accepted scan is rejected, the quantity unchanged, when less than
\* SCAN_COOLDOWN has passed since that scan, and is accepted, the quantity
\* one higher, otherwise.  (The step makes this call alone, so that the
\* ledger after the step is the ledger after the call.)
RepeatedScan(c) ==
  /\ c.fn = "add_part"
  /\ c.arg.from_scanner
  /\ ValidRaw(c)
  /\ CodeOf(c) = last_accept.code

ScanOutcome(c) ==
  IF now - last_accept.time < SCAN_COOLDOWN
  THEN ~c.ok /\ QtyOf(parts', CodeOf(c)) = QtyOf(parts, CodeOf(c))
  ELSE c.ok /\ QtyOf(parts', CodeOf(c)) = QtyOf(parts, CodeOf(c)) + 1

C3_RepeatedScan ==
  [][Len(calls') = 1 /\ RepeatedScan(calls'[1]) => ScanOutcome(calls'[1])]_vars

\* C3, amended: the same, provided reset_transfer has not been called since
\* the last accepted scan.
C3_RepeatedScanNoReset ==
  [][Len(calls') = 1 /\ RepeatedScan(calls'[1]) /\ ~last_accept.reset
       => ScanOutcome(calls'[1])]_vars

\* A repeated scan inside the window has just been rejected.
C3_Witness ==
  /\ Len(calls) = 1
  /\ RepeatedScan(calls[1])
  /\ ~calls[1].ok
  /\ ~last_accept.reset
  /\ now - last_accept.time = 5
  /\ QtyOf(parts, last_accept.code) = 1

\* C4: when the sink answers with an error status or the request times
\* out, reset_transfer is not called and the ledger is what it was when
\* Complete Transfer was pressed.
C4_FailedSubmissionKeepsLedger ==
  \A i \in SaveCalls(calls) :
    calls[i].arg.outcome \in {"http_error", "timeout"} =>
      /\ ~calls[i].ok
      /\ ResetCalls(calls) = {}
      /\ parts = calls[i].arg.payload.parts

\* C5: after a successful submission the ledger is empty and both location
\* fields are blank.
C5_BlankDraftAfterSuccess ==
  (\E i \in SaveCalls(calls) : calls[i].ok) =>
    /\ parts = <<>>
    /\ from_location = ""
    /\ to_location = ""

\* C6: a scanner call rejected by the cooldown changes neither the ledger
\* nor the cooldown state, and a scanned value is only ever accepted in the
\* run that its own scan event started.
SuppressedScan(c) ==
  /\ c.fn = "add_part"
  /\ c.arg.from_scanner
  /\ ValidRaw(c)
  /\ ~c.ok

C6_RejectedCallChangesNothing ==
  Len(calls') = 1 /\ SuppressedScan(calls'[1]) =>
    /\ parts' = parts
    /\ last_scanned_code' = last_scanned_code
    /\ last_scan_time' = last_scan_time

C6_AcceptedOnlyWhenDelivered ==
  \A i \in AddCalls(calls) :
    calls[i].arg.from_scanner /\ calls[i].ok => calls[i].arg.fresh

C6_SuppressedScanIgnored ==
  [][C6_RejectedCallChangesNothing /\ C6_AcceptedOnlyWhenDelivered']_vars

\* C7: the sink is called only with a non-empty From Location, a non-empty
\* To Location and at least one ledger entry; when one of the three is
\* missing, Complete Transfer cannot be pressed.
C7_SinkOnlyWhenComplete ==
  /\ \A i \in SaveCalls(calls) :
       /\ calls[i].arg.payload.fromLocation # ""
       /\ calls[i].arg.payload.toLocation # ""
       /\ Len(calls[i].arg.payload.parts) >= 1
  /\ (from_location = "" \/ to_location = "" \/ parts = <<>>)
       => ~ENABLED PressCompleteTransfer

C7_Witness ==
  /\ SaveCalls(calls) # {}
  /\ parts # <<>>
  /\ ENABLED PressCompleteTransfer

C9_ManualAlwaysAccepted ==
  [][\A i \in AddCalls(calls') :
       ~calls'[i].arg.from_scanner /\ ValidRaw(calls'[i]) =>
         /\ calls'[i].ok
         /\ QtyOf(parts', CodeOf(calls'[i]))
              = QtyOf(parts, CodeOf(calls'[i])) + 1]_vars

\* A manual entry of the code scanned less than SCAN_COOLDOWN ago.
C9_Witness ==
  /\ Len(calls) = 1
  /\ calls[1].fn = "add_part"
  /\ ~calls[1].arg.from_scanner
  /\ calls[1].ok
  /\ CodeOf(calls[1]) = last_scanned_code
  /\ now - last_scan_time < SCAN_COOLDOWN
  /\ QtyOf(parts, last_scanned_code) = 2

\* C10: every ledger entry has an integer quantity >= 1, and the decrease
\* button of an entry of quantity 1 leaves the ledger as it is.
C10_QuantityAtLeastOne ==
  /\ \A i \in 1..Len(parts) : parts[i].quantity \in Nat /\ parts[i].quantity >= 1
  /\ \A i \in 0..(Len(parts) - 1) :
       parts[i + 1].quantity = 1 =>
         dec_button(Begin(Session), i).S.parts = parts

\* An entry has just been decreased to 1.
C10_Witness ==
  /\ Len(calls) = 1
  /\ calls[1].fn = "update_quantity"
  /\ calls[1].arg.new_qty = 1
  /\ parts[calls[1].arg.index + 1].quantity = 1

\* The rows of the ledger as the Complete Transfer handler copies them.
LedgerRows(ps) ==
  [i \in 1..Len(ps) |-> [barcode |-> ps[i].barcode, quantity |-> ps[i].quantity]]

\* C14: the payload of a sink call has one {barcode, quantity} row per entry
\* of the ledger as it was when Complete Transfer was pressed, in ledger
\* order; totalParts is the sum of the quantities and partTypes the number
\* of entries.
C14_PayloadReflectsLedger ==
  [][\A i \in SaveCalls(calls') :
       /\ calls'[i].arg.payload.parts = LedgerRows(parts)
       /\ calls'[i].arg.payload.totalParts = total_items(parts)
       /\ calls'[i].arg.payload.partTypes = Len(parts)]_vars

\* A ledger of two entries and three items has just been sent.
C14_Witness ==
  \E i \in SaveCalls(calls) :
    /\ Len(calls[i].arg.payload.parts) = 2
    /\ calls[i].arg.payload.totalParts = 3
    /\ calls[i].arg.payload.partTypes = 2
    /\ calls[i].arg.payload.parts[1].quantity = 2

\* C17: a press of Complete Transfer makes exactly one call to the sink, and
\* a step that is not such a press makes none.
C17_OneSinkCallPerPress ==
  [][/\ PressCompleteTransfer => Cardinality(SaveCalls(calls')) = 1
     /\ SaveCalls(calls') # {} => PressCompleteTransfer]_vars

\* C20: transfer_complete is False in every reachable state, so that
\* can_complete holds (the Complete Transfer button is shown) whenever both
\* locations are filled in and the ledger is not empty.
C20_NeverComplete ==
  /\ transfer_complete = FALSE
  /\ (from_location # "" /\ to_location # "" /\ parts # <<>>)
       => can_complete(Session)

\* A submission has just succeeded, and reset_transfer has run.
C20_Witness ==
  /\ \E i \in SaveCalls(calls) : calls[i].ok
  /\ ResetCalls(calls) # {}
  /\ from_location # ""
  /\ to_location # ""

\* ------------------------------------------- the functions, called directly
\* add_part, remove_part, update_quantity and reset_transfer called with
\* arguments of every kind, among them those the widgets never pass (a
\* quantity below 1, an index outside the list).  The calls start from the
\* session of Init and build the ledger themselves.

\* Raw values handed to add_part: empty, whitespace only, one character
\* between spaces, and three codes, one of them in two spellings.
RawValues ==
  { <<>>, <<" ", " ">>, <<" ", "a", " ">>,
    <<"a", "b", "c", "1", "2", "3">>,
    <<"A", "B", "C", "1", "2", "3", " ">>,
    <<" ", " ", "a", "b", " ">>,
    <<"z", "9">> }

\* New quantities handed to update_quantity.
QtyValues == {-1, 0, 1, MaxQty}

\* Indices handed to remove_part and update_quantity for a list of n rows.
IndexValues(n) == (-1)..n

\* A call has returned with the session S1; c is its record.
Returned(S1, c) ==
  /\ \A i \in 1..Len(S1.parts) : S1.parts[i].quantity <= MaxQty
  /\ parts' = S1.parts
  /\ transfer_complete' = S1.transfer_complete
  /\ scanning_mode' = S1.scanning_mode
  /\ last_scanned_code' = S1.last_scanned_code
  /\ last_scan_time' = S1.last_scan_time
  /\ calls' = <<c>>
  /\ UNCHANGED <<scanned_result, from_location, to_location, now, hist>>

CallAddPart ==
  \E raw \in RawValues, from_scanner \in BOOLEAN :
    \E r \in {add_part(Session, raw, from_scanner, now)} :
      /\ Returned(r.S, Call("add_part",
                            [raw |-> raw, from_scanner |-> from_scanner,
                             fresh |-> TRUE], r.ok))
      /\ UNCHANGED last_accept

CallRemovePart ==
  \E index \in IndexValues(Len(parts)) :
    /\ Returned(remove_part(Session, index),
                Call("remove_part", [index |-> index], TRUE))
    /\ UNCHANGED last_accept

CallUpdateQuantity ==
  \E index \in IndexValues(Len(parts)), new_qty \in QtyValues :
    /\ Returned(update_quantity(Session, index, new_qty),
                Call("update_quantity",
                     [index |-> index, new_qty |-> new_qty], TRUE))
    /\ UNCHANGED last_accept

CallResetTransfer ==
  /\ Returned(reset_transfer(Session), Call("reset_transfer", <<>>, TRUE))
  /\ UNCHANGED last_accept

UnitNext ==
  \/ CallAddPart
  \/ CallRemovePart
  \/ CallUpdateQuantity
  \/ CallResetTransfer

UnitSpec == Init /\ [][UnitNext]_vars

\* ------------------------------------------------- the scanner, over time
\* add_part called by the scanner and by the manual form as time passes,
\* with a record of when each code was last accepted from the scanner.

\* Largest clock reading explored by these calls.
ScanMaxTime == 35

\* Amounts of time that may pass between two calls (tenths of a second).
ScanSteps == {5}

\* The raw values of three codes.
ScanValues ==
  { <<"a", "b", "c", "1", "2", "3">>, <<" ", " ", "a", "b", " ">>, <<"z", "9">> }

\* The trimmed, uppercased forms of the raw values.
ScanCodes == {upper(strip(raw)) : raw \in ScanValues}

\* The last accepted scan as in NoAccept, and for each code the time of its
\* last accepted scan since reset_transfer was last called (-1 for none).
NoScans ==
  [code |-> <<>>, time |-> 0, reset |-> FALSE, at |-> [c \in ScanCodes |-> -1]]

LogScanAt(g, c, t) ==
  IF c.fn = "add_part" /\ c.ok /\ c.arg.from_scanner
  THEN [code |-> CodeOf(c), time |-> t, reset |-> FALSE,
        at |-> [g.at EXCEPT ![CodeOf(c)] = t]]
  ELSE IF c.fn = "reset_transfer"
  THEN [g EXCEPT !.reset = TRUE, !.at = [x \in ScanCodes |-> -1]]
  ELSE g

\* Time since the last accepted scan of the code of a raw value, -1 for none.
Since(raw) ==
  LET at == last_accept.at[upper(strip(raw))] IN
  IF at < 0 THEN -1 ELSE now - at

\* Time since the last accepted scan of the code of a raw value when
\* reset_transfer has been called after that scan, -1 otherwise.
SinceBeforeReset(raw) ==
  IF last_accept.reset /\ last_accept.code = upper(strip(raw))
  THEN now - last_accept.time
  ELSE -1

\* Lines 19-28.
ScanInit ==
  /\ parts = <<>>
  /\ transfer_complete = FALSE
  /\ scanning_mode = "None"
  /\ last_scanned_code = <<>>
  /\ last_scan_time = 0
  /\ scanned_result = <<>>
  /\ from_location = ""
  /\ to_location = ""
  /\ now = StartTime
  /\ calls = <<>>
  /\ hist = NoHist
  /\ last_accept = NoScans

ScanAddPart ==
  \E raw \in ScanValues, from_scanner \in BOOLEAN :
    \E r \in {add_part(Session, raw, from_scanner, now)} :
      \E c \in {Call("add_part",
                     [raw |-> raw, from_scanner |-> from_scanner,
                      fresh |-> TRUE, since |-> Since(raw),
                      since_before_reset |-> SinceBeforeReset(raw)], r.ok)} :
        /\ Returned(r.S, c)
        /\ last_accept' = LogScanAt(last_accept, c, now)

ScanResetTransfer ==
  \E c \in {Call("reset_transfer", <<>>, TRUE)} :
    /\ Returned(reset_transfer(Session), c)
    /\ last_accept' = LogScanAt(last_accept, c, now)

ScanTick ==
  /\ \E d \in ScanSteps : now + d <= ScanMaxTime /\ now' = now + d
  /\ calls' = <<>>
  /\ UNCHANGED <<parts, transfer_complete, scanning_mode, last_scanned_code,
                 last_scan_time, scanned_result, from_location, to_location,
                 hist, last_accept>>

ScanNext ==
  \/ ScanAddPart
  \/ ScanResetTransfer
  \/ ScanTick

ScanSpec == ScanInit /\ [][ScanNext]_vars

\* ------------------------------------------- properties of the direct calls
\* The calls of a step, by kind.
RemoveCalls(cs) == {i \in 1..Len(cs) : cs[i].fn = "remove_part"}

UpdateCalls(cs) == {i \in 1..Len(cs) : cs[i].fn = "update_quantity"}

\* The barcodes of a ledger, in ledger order.
Barcodes(ps) == [i \in 1..Len(ps) |-> ps[i].barcode]

\* The barcodes of old that are still in new, in the order of old.
Remaining(old, new) ==
  SelectSeq(Barcodes(old),
            LAMBDA b : \E j \in 1..Len(new) : new[j].barcode = b)

\* A list without its row k (1-based).
WithoutRow(ps, k) == [j \in 1..(Len(ps) - 1) |-> IF j < k THEN ps[j] ELSE ps[j + 1]]

\* C11: the entries that remain after a call are at the head of the ledger
\* in the order they had before, a code that was not in the ledger is
\* appended at the end, update_quantity leaves the barcodes as they were and
\* remove_part takes out one row and moves no other.
C11_StableOrder ==
  [][/\ Remaining(parts, parts')
          = SubSeq(Barcodes(parts'), 1, Len(Remaining(parts, parts')))
     /\ \A i \in AddCalls(calls') :
          calls'[i].ok =>
            Barcodes(parts')
              = IF QtyOf(parts, CodeOf(calls'[i])) = 0
                THEN Append(Barcodes(parts), CodeOf(calls'[i]))
                ELSE Barcodes(parts)
     /\ \A i \in UpdateCalls(calls') : Barcodes(parts') = Barcodes(parts)
     /\ \A i \in RemoveCalls(calls') :
          IF 0 <= calls'[i].arg.index /\ calls'[i].arg.index < Len(parts)
          THEN parts' = WithoutRow(parts, calls'[i].arg.index + 1)
          ELSE parts' = parts]_vars

\* The first of three rows has just been removed.
C11_Witness ==
  /\ Len(calls) = 1
  /\ calls[1].fn = "remove_part"
  /\ calls[1].arg.index = 0
  /\ Len(parts) = 2
  /\ parts[2].quantity = 2

\* C12: an add_part call whose raw value is empty or shorter than two
\* characters once trimmed returns False and leaves the ledger,
\* last_scanned_code and last_scan_time as they were, from the scanner and
\* from the manual form.
C12_InvalidInputRejected ==
  [][\A i \in AddCalls(calls') :
       ~ValidRaw(calls'[i]) =>
         /\ ~calls'[i].ok
         /\ parts' = parts
         /\ last_scanned_code' = last_scanned_code
         /\ last_scan_time' = last_scan_time]_vars

\* A whitespace-only value from the scanner has just been rejected, the
\* ledger and the cooldown state being set.
C12_Witness ==
  /\ Len(calls) = 1
  /\ calls[1].fn = "add_part"
  /\ calls[1].arg.raw = <<" ", " ">>
  /\ calls[1].arg.from_scanner
  /\ ~calls[1].ok
  /\ parts # <<>>
  /\ last_scanned_code # <<>>

\* Lower-case letters of the raw values.
LowerCase == {"a", "b", "c", "z"}

\* A code with no whitespace at its ends and no lower-case letter.
IsNormal(code) ==
  /\ code # <<>>
  /\ code[1] \notin Whitespace
  /\ code[Len(code)] \notin Whitespace
  /\ \A k \in 1..Len(code) : code[k] \notin LowerCase

\* C13: an accepted add_part call raises by one the quantity of the entry
\* whose barcode is the trimmed, uppercased raw value, adds an entry only
\* when no entry has that barcode, and every stored barcode is trimmed and
\* uppercase.
C13_SpellingsFolded ==
  [][\A i \in AddCalls(calls') :
       calls'[i].ok =>
         /\ QtyOf(parts', CodeOf(calls'[i]))
              = QtyOf(parts, CodeOf(calls'[i])) + 1
         /\ Len(parts') = Len(parts)
              + (IF QtyOf(parts, CodeOf(calls'[i])) = 0 THEN 1 ELSE 0)
         /\ \A j \in 1..Len(parts') : IsNormal(parts'[j].barcode)]_vars

\* "ABC123 " has just been added to a ledger that held ABC123 once.
C13_Witness ==
  /\ Len(calls) = 1
  /\ calls[1].fn = "add_part"
  /\ calls[1].ok
  /\ calls[1].arg.raw = <<"A", "B", "C", "1", "2", "3", " ">>
  /\ parts = <<[barcode |-> <<"A", "B", "C", "1", "2", "3">>, quantity |-> 2]>>

\* C15: an update_quantity call with a new quantity below 1 leaves every
\* entry of the ledger as it was.
C15_NonPositiveQuantityRejected ==
  [][\A i \in UpdateCalls(calls') :
       calls'[i].arg.new_qty < 1 => parts' = parts]_vars

\* Quantity 0 has just been asked for an entry of quantity 2.
C15_Witness ==
  /\ Len(calls) = 1
  /\ calls[1].fn = "update_quantity"
  /\ calls[1].arg.new_qty = 0
  /\ calls[1].arg.index = 1
  /\ Len(parts) = 2
  /\ parts[2].quantity = 2

\* C16: a remove_part or update_quantity call whose index is negative or
\* not below the number of entries leaves the ledger as it was.
C16_StaleIndexIgnored ==
  [][\A i \in RemoveCalls(calls') \cup UpdateCalls(calls') :
       (calls'[i].arg.index < 0 \/ calls'[i].arg.index >= Len(parts))
         => parts' = parts]_vars

\* remove_part(-1) has just been called on a ledger of two entries.
C16_Witness ==
  /\ Len(calls) = 1
  /\ calls[1].fn = "remove_part"
  /\ calls[1].arg.index = -1
  /\ Len(parts) = 2

\* C18: the code of an accepted add_part call is left as it is by
\* strip().upper(), and add_part called with a stored barcode is accepted
\* and raises the quantity of that entry, adding none.
C18_NormalizeIdempotent ==
  /\ \A i \in Accepted(calls) :
       normalize(normalize(calls[i].arg.raw)) = normalize(calls[i].arg.raw)
  /\ \A j \in 1..Len(parts) :
       \A from_scanner \in BOOLEAN :
         LET r == add_part(Session, parts[j].barcode, from_scanner,
                           now + SCAN_COOLDOWN)
         IN /\ r.ok
            /\ Len(r.S.parts) = Len(parts)
            /\ r.S.parts[j].quantity = parts[j].quantity + 1

\* "  ab " has just been accepted and is stored as AB, beside another entry.
C18_Witness ==
  /\ Len(calls) = 1
  /\ calls[1].fn = "add_part"
  /\ calls[1].ok
  /\ calls[1].arg.raw = <<" ", " ", "a", "b", " ">>
  /\ Len(parts) = 2
  /\ parts[2].barcode = <<"A", "B">>

\* C19: a scanner call for a code that was accepted from the scanner less
\* than SCAN_COOLDOWN ago is accepted, and raises the quantity of that code
\* by one, when the last accepted scan was of another code.
C19_OnlyLastScanRemembered ==
  [][\A i \in AddCalls(calls') :
       (/\ calls'[i].arg.from_scanner
        /\ last_accept.at[CodeOf(calls'[i])] >= 0
        /\ now - last_accept.at[CodeOf(calls'[i])] < SCAN_COOLDOWN
        /\ last_accept.code # CodeOf(calls'[i]))
       => /\ calls'[i].ok
          /\ QtyOf(parts', CodeOf(calls'[i]))
               = QtyOf(parts, CodeOf(calls'[i])) + 1]_vars

\* A code scanned 0.5 s ago, another code having been scanned since, has
\* just been accepted again.
C19_Witness ==
  /\ Len(calls) = 1
  /\ calls[1].fn = "add_part"
  /\ calls[1].arg.from_scanner
  /\ calls[1].ok
  /\ calls[1].arg.since = 5
  /\ QtyOf(parts, CodeOf(calls[1])) = 2
  /\ Len(parts) = 2

\* C21: reset_transfer leaves last_scanned_code empty and last_scan_time 0;
\* the first scanner call after it is accepted and raises the quantity of
\* its code by one, however recently that code was scanned before the
\* reset; a manual add_part call leaves last_scanned_code and
\* last_scan_time as they were.
C21_ResetClearsCooldown ==
  [][/\ \A i \in ResetCalls(calls') :
          last_scanned_code' = <<>> /\ last_scan_time' = 0
     /\ \A i \in AddCalls(calls') :
          /\ (calls'[i].arg.from_scanner /\ last_accept.reset)
               => /\ calls'[i].ok
                  /\ QtyOf(parts', CodeOf(calls'[i]))
                       = QtyOf(parts, CodeOf(calls'[i])) + 1
          /\ ~calls'[i].arg.from_scanner
               => /\ last_scanned_code' = last_scanned_code
                  /\ last_scan_time' = last_scan_time]_vars

\* A code scanned 0.5 s ago, reset_transfer having been called since, has
\* just been accepted from the scanner again.
C21_Witness ==
  /\ Len(calls) = 1
  /\ calls[1].fn = "add_part"
  /\ calls[1].arg.from_scanner
  /\ calls[1].ok
  /\ calls[1].arg.since_before_reset = 5
  /\ parts = <<[barcode |-> CodeOf(calls[1]), quantity |-> 1]>>

\* A manual call has just been accepted inside the window of a scan.
C21_ManualWitness ==
  /\ Len(calls) = 1
  /\ calls[1].fn = "add_part"
  /\ ~calls[1].arg.from_scanner
  /\ calls[1].ok
  /\ last_scanned_code # <<>>
  /\ last_scanned_code # CodeOf(calls[1])
  /\ now - last_scan_time = 5

====
